---- MODULE Spec2Model ----
(***************************************************************************)
(* The resource object model of pkg/resource/resource_object.go (identity, *)
(* capture, hydration, Update) and the stack-import validation of          *)
(* cmd/stack_import.go.                                                    *)
(***************************************************************************)
EXTENDS Integers, Sequences, FiniteSets, TLC

VARIABLES
    urn,    \* Object.urn of every resource object
    live,   \* the properties of every resource's live runtime object
    last,   \* the last call made on a resource object, and how it ended
    input,  \* the property map handed to the round trip
    imp     \* the stack import command: its inputs, position and results

vars == <<urn, live, last, input, imp>>

(***************************************************************************)
(* Bounds of the model.                                                    *)
(***************************************************************************)
\* a generated property map or runtime object tree has at most MaxNodes values
MaxNodes == 2
\* the property map of a round trip has at most MaxTripNodes values
MaxTripNodes == 3
\* an imported snapshot has at most MaxSnapshot resources
MaxSnapshot == 3

Resources == {"r1", "r2"}
NoRes == "nil"
IDs == {"i1", "i2"}
URNs == {"", "u1"}
IDProperty == "id"
Keys == {IDProperty, "a"}
EmptyMap == [k \in {} |-> 0]

(***************************************************************************)
(* PropertyValue: the closed variant of serializable values.               *)
(***************************************************************************)
NewNullProperty == [kind |-> "Null", v |-> <<>>]
NewBoolProperty(b) == [kind |-> "Bool", v |-> b]
NewNumberProperty(n) == [kind |-> "Number", v |-> n]
NewStringProperty(s) == [kind |-> "String", v |-> s]
NewArrayProperty(elems) == [kind |-> "Array", v |-> elems]
NewObjectProperty(m) == [kind |-> "Object", v |-> m]
MakeComputed(p) == [kind |-> "Computed", v |-> p]
MakeOutput(p) == [kind |-> "Output", v |-> p]
\* PropertyValue{}: the zero value, whose V is nil
ZeroPropertyValue == [kind |-> "Null", v |-> <<>>]

\* a failed contract.Assert while producing a property value / a property map
PVFail == [kind |-> "FAIL", v |-> <<>>]
PVFailMap == [k \in {"!"} |-> PVFail]
IsPVFailMap(m) == "!" \in DOMAIN m

(***************************************************************************)
(* rt.Object: a runtime object is its type and its value.                  *)
(***************************************************************************)
RtNull == [type |-> "null", val |-> <<>>]
RtBool(b) == [type |-> "bool", val |-> b]
NewNumberObject(n) == [type |-> "number", val |-> n]
NewStringObject(s) == [type |-> "string", val |-> s]
NewArrayObject(elems) == [type |-> "array", val |-> elems]
\* rt.NewObject(t, ...): an object of type t with its own properties
rtNewObject(t, props) == [type |-> t, val |-> props]
\* a reference to the live object of resource r
RtResource(r) == [type |-> "resource", val |-> r]
RtComputed(elem, expr, sources) ==
    [type |-> "computed", val |-> [elem |-> elem, expr |-> expr, sources |-> sources]]
RtFunction == [type |-> "function", val |-> <<>>]
\* a runtime type capture does not know (a module, a pointer, ...)
RtOther == [type |-> "module", val |-> <<>>]

\* a nil *rt.Object, and a failed contract.Assert while producing an object
RtNil == [type |-> "nil", val |-> <<>>]
RtFail == [type |-> "FAIL", val |-> <<>>]
RtFailMap == [k \in {"!"} |-> RtFail]
IsRtFailMap(m) == "!" \in DOMAIN m

\* obj.GetPropertyAddr(key, init, forceInit).Obj(): nil when the property is
\* absent and init is false, a null object when init creates it
GetProperty(props, key, init) ==
    IF key \in DOMAIN props THEN props[key]
    ELSE IF init THEN RtNull ELSE RtNil

(***************************************************************************)
(* Capture: runtime objects to property values.                            *)
(***************************************************************************)
getIDObject(lv, r) ==
    LET id == GetProperty(lv[r], IDProperty, FALSE)
    IN  IF id = RtNil THEN RtNil
        ELSE IF id.type \in {"string", "computed"} THEN id
        ELSE RtFail

RECURSIVE copyObjectProperty(_, _, _)
RECURSIVE copyObjectProperties(_, _, _)

copyObject(lv, resobj, props) == copyObjectProperties(lv, resobj, props)

\* the placeholder of a computed value of element type elem: the zero value of
\* the types the two switches know, PVFail for any other (a map, a function)
ComputedElemZero(elem) ==
    CASE elem = "null" -> NewNullProperty
      [] elem = "bool" -> NewBoolProperty(FALSE)
      [] elem = "number" -> NewNumberProperty(0)
      [] elem = "string" -> NewStringProperty("")
      [] elem \in {"object", "dynamic"} -> NewObjectProperty(EmptyMap)
      [] elem = "array" -> NewArrayProperty(<<>>)
      [] elem = "class" -> NewObjectProperty(EmptyMap)
      [] OTHER -> PVFail

\* IsOutputProperty without the test of comp.Expr
IsOutputProperty_IgnoreExpr(resobj, comp) ==
    Len(comp.sources) = 1 /\ comp.sources[1] = resobj

\* !comp.Expr && len(comp.Sources) == 1 && comp.Sources[0] == resobj
IsOutputProperty(resobj, comp) ==
    ~comp.expr /\ Len(comp.sources) = 1 /\ comp.sources[1] = resobj

\* copyResourceReference giving a computed value whether or not the ID is set
copyResourceReference_AlwaysComputed(lv, r) ==
    IF getIDObject(lv, r) = RtFail THEN PVFail
    ELSE MakeComputed(NewStringProperty(""))

\* the branch of copyObjectProperty for a value of a resource type
copyResourceReference(lv, r) ==
    LET idobj == getIDObject(lv, r)
    IN  IF idobj = RtFail THEN PVFail
        ELSE IF idobj # RtNil /\ idobj.type = "string"
             THEN NewStringProperty(idobj.val)
             ELSE MakeComputed(NewStringProperty(""))

\* the branch of copyObjectProperty for a value of a computed type
copyComputedProperty(resobj, comp) ==
    LET zero == ComputedElemZero(comp.elem)
    IN  IF zero = PVFail THEN PVFail
        ELSE IF IsOutputProperty(resobj, comp)
             THEN MakeOutput(zero) ELSE MakeComputed(zero)

copyObjectProperty(lv, resobj, obj) ==
    LET t == obj.type
    IN  IF t = "resource" THEN copyResourceReference(lv, obj.val)
        ELSE IF t = "null" THEN NewNullProperty
        ELSE IF t = "bool" THEN NewBoolProperty(obj.val)
        ELSE IF t = "number" THEN NewNumberProperty(obj.val)
        ELSE IF t = "string" THEN NewStringProperty(obj.val)
        ELSE IF t \in {"object", "dynamic", "map", "class"} THEN
            LET result == IF t = "map"
                          THEN copyObjectProperties(lv, NoRes, obj.val)
                          ELSE copyObject(lv, NoRes, obj.val)
            IN  IF IsPVFailMap(result) THEN PVFail ELSE NewObjectProperty(result)
        ELSE IF t = "array" THEN
            LET result == [i \in 1..Len(obj.val) |->
                               copyObjectProperty(lv, NoRes, obj.val[i])]
            IN  IF \E i \in 1..Len(obj.val) : result[i] = PVFail
                THEN PVFail ELSE NewArrayProperty(result)
        ELSE IF t = "computed" THEN copyComputedProperty(resobj, obj.val)
        ELSE IF t = "function" THEN ZeroPropertyValue
        ELSE PVFail

copyObjectProperties(lv, resobj, props) ==
    LET result == [k \in DOMAIN props |-> copyObjectProperty(lv, resobj, props[k])]
    IN  IF \E k \in DOMAIN props : result[k] = PVFail THEN PVFailMap ELSE result

CopyProperties(lv, r) == copyObject(lv, r, lv[r])

(***************************************************************************)
(* Hydration: property values to runtime objects.                          *)
(***************************************************************************)
RECURSIVE createRuntimeProperty(_)
RECURSIVE setRuntimeProperties(_, _)

\* NullKeys without the IsNull test: every incoming key overwrites
NullKeys_All(obj, props) == DOMAIN props

\* the keys of props whose destination property is null when it is reached
NullKeys(obj, props) ==
    {k \in DOMAIN props : GetProperty(obj, k, TRUE) = RtNull}

\* createRuntimeProperty taking an unresolved value for null, not asserting
createRuntimeProperty_UnresolvedAsNull(v) ==
    IF v.kind \in {"Null", "Computed", "Output"} THEN RtNull
    ELSE IF v.kind = "Bool" THEN RtBool(v.v)
    ELSE IF v.kind = "Number" THEN NewNumberObject(v.v)
    ELSE IF v.kind = "String" THEN NewStringObject(v.v)
    ELSE IF v.kind = "Array" THEN
        LET arr == [i \in 1..Len(v.v) |-> createRuntimeProperty(v.v[i])]
        IN  IF \E i \in 1..Len(v.v) : arr[i] = RtFail
            THEN RtFail ELSE NewArrayObject(arr)
    ELSE LET props == setRuntimeProperties(EmptyMap, v.v)
         IN  IF IsRtFailMap(props) THEN RtFail ELSE rtNewObject("dynamic", props)

createRuntimeProperty(v) ==
    IF v.kind = "Null" THEN RtNull
    ELSE IF v.kind = "Bool" THEN RtBool(v.v)
    ELSE IF v.kind = "Number" THEN NewNumberObject(v.v)
    ELSE IF v.kind = "String" THEN NewStringObject(v.v)
    ELSE IF v.kind = "Array" THEN
        LET arr == [i \in 1..Len(v.v) |-> createRuntimeProperty(v.v[i])]
        IN  IF \E i \in 1..Len(v.v) : arr[i] = RtFail
            THEN RtFail ELSE NewArrayObject(arr)
    ELSE IF v.kind = "Object" THEN
        LET props == setRuntimeProperties(EmptyMap, v.v)
        IN  IF IsRtFailMap(props) THEN RtFail ELSE rtNewObject("dynamic", props)
    ELSE RtFail

\* the object's properties once every key of done has been handled
SetKeys(obj, props, done) ==
    [k \in DOMAIN obj \cup done |->
        IF k \in done /\ k \in NullKeys(obj, props)
        THEN createRuntimeProperty(props[k])
        ELSE GetProperty(obj, k, TRUE)]

\* the keys of props at which the loop of setRuntimeProperties panics
FailingKeys(obj, props) ==
    {k \in NullKeys(obj, props) : createRuntimeProperty(props[k]) = RtFail}

\* setRuntimeProperties passing over the entries whose value is null
setRuntimeProperties_SkipNull(obj, props) ==
    IF FailingKeys(obj, props) # {} THEN RtFailMap
    ELSE SetKeys(obj, props, {k \in DOMAIN props : props[k].kind # "Null"})

setRuntimeProperties(obj, props) ==
    IF FailingKeys(obj, props) # {} THEN RtFailMap
    ELSE SetKeys(obj, props, DOMAIN props)

\* every way the loop over the (unordered) Go map can end: all keys handled,
\* or a panic at a failing key f with any set of the other keys handled before
setRuntimePropertiesOutcomes(obj, props) ==
    LET failing == FailingKeys(obj, props)
    IN  IF failing = {}
        THEN {[ok |-> TRUE, props |-> setRuntimeProperties(obj, props)]}
        ELSE {[ok |-> FALSE,
               props |-> [k \in DOMAIN SetKeys(obj, props, before) \cup {f} |->
                            IF k = f THEN GetProperty(obj, f, TRUE)
                            ELSE SetKeys(obj, props, before)[k]]] :
                f \in failing, before \in SUBSET (DOMAIN props \ failing)}


(***************************************************************************)
(* The values the calls are tried on: every property value and every       *)
(* property map built from a set of leaves with a given number of nodes.   *)
(***************************************************************************)
RECURSIVE PVOfSize(_, _, _)
RECURSIVE PVSeqsOfSize(_, _, _)
RECURSIVE PVMapsOfSize(_, _, _, _)

\* the property values of exactly n nodes, nested objects having keys in nk
PVOfSize(leaves, nk, n) ==
    IF n <= 0 THEN {}
    ELSE (IF n = 1 THEN leaves ELSE {})
         \cup {NewArrayProperty(s) : s \in PVSeqsOfSize(leaves, nk, n - 1)}
         \cup {NewObjectProperty(m) : m \in PVMapsOfSize(leaves, nk, nk, n - 1)}

\* the sequences of property values of n nodes together
PVSeqsOfSize(leaves, nk, n) ==
    IF n = 0 THEN {<<>>}
    ELSE UNION {{<<x>> \o s : x \in PVOfSize(leaves, nk, k),
                             s \in PVSeqsOfSize(leaves, nk, n - k)} : k \in 1..n}

\* the property maps over keys ks whose values have n nodes together
PVMapsOfSize(leaves, nk, ks, n) ==
    IF ks = {} THEN (IF n = 0 THEN {EmptyMap} ELSE {})
    ELSE LET k == CHOOSE x \in ks : TRUE
             rest == ks \ {k}
         IN  PVMapsOfSize(leaves, nk, rest, n)
             \cup UNION {{(k :> x) @@ m : x \in PVOfSize(leaves, nk, j),
                                         m \in PVMapsOfSize(leaves, nk, rest, n - j)} :
                         j \in 1..n}

PVMapsUpTo(leaves, nk, n) == UNION {PVMapsOfSize(leaves, nk, Keys, j) : j \in 0..n}

\* the resolved leaves, and leaves with the two unresolved kinds
ResolvedLeaves ==
    {NewNullProperty, NewBoolProperty(TRUE), NewNumberProperty(1), NewStringProperty("s")}
HydrationLeaves ==
    {NewNullProperty, NewStringProperty("s"),
     MakeComputed(NewStringProperty("")), MakeOutput(NewStringProperty(""))}

TripInputs == PVMapsUpTo(ResolvedLeaves, Keys, MaxTripNodes)
HydrationInputs == PVMapsUpTo(HydrationLeaves, {"a"}, MaxNodes)

RECURSIVE RtOfSize(_, _)
RECURSIVE RtSeqsOfSize(_, _)

\* the types of the runtime objects that hold properties
ObjectTypes == {"object", "dynamic", "map", "class"}

\* the runtime objects of exactly n nodes; an object holds its property "a"
RtOfSize(leaves, n) ==
    IF n <= 0 THEN {}
    ELSE (IF n = 1 THEN leaves \cup {rtNewObject(t, EmptyMap) : t \in ObjectTypes}
                   ELSE {})
         \cup {NewArrayObject(s) : s \in RtSeqsOfSize(leaves, n - 1)}
         \cup {rtNewObject(t, "a" :> x) : t \in ObjectTypes, x \in RtOfSize(leaves, n - 1)}

RtSeqsOfSize(leaves, n) ==
    IF n = 0 THEN {<<>>}
    ELSE UNION {{<<x>> \o s : x \in RtOfSize(leaves, k),
                             s \in RtSeqsOfSize(leaves, n - k)} : k \in 1..n}

RtUpTo(leaves, n) == UNION {RtOfSize(leaves, j) : j \in 1..n}

\* computed values: of a string, with and without an expression, of no, one
\* and two sources; and of a map, an element type capture has no case for
ComputedLeaves ==
    {RtComputed("string", e, src) :
        e \in BOOLEAN, src \in {<<>>, <<"r1">>, <<"r2">>, <<"r1", "r2">>}}
    \cup {RtComputed("map", FALSE, <<r>>) : r \in Resources}

CaptureLeaves ==
    {RtNull, NewStringObject("s"), RtFunction, RtOther}
    \cup {RtResource(r) : r \in Resources} \cup ComputedLeaves

\* the ID property as the evaluator may have left it; RtNil: absent
InitialIDs(r) ==
    {RtNil, RtNull, RtComputed("string", FALSE, <<r>>)}
    \cup {NewStringObject(id) : id \in IDs}

\* the object with ID property id and property "a", either one absent if RtNil
ObjectOf(id, a) ==
    [k \in {k \in Keys : (k = IDProperty /\ id # RtNil) \/ (k = "a" /\ a # RtNil)} |->
        IF k = IDProperty THEN id ELSE a]

(***************************************************************************)
(* The calls on a Resource Object.  A call that hits a contract.Assert or  *)
(* contract.Require panics: it ends "violation" and nothing runs after it. *)
(***************************************************************************)
Call(op, r, arg, res, ret) == [op |-> op, r |-> r, arg |-> arg, res |-> res, ret |-> ret]
NoCall == Call("init", NoRes, <<>>, "ok", <<>>)
Running == last.res = "ok"

\* HasURN(r): the URN is not the empty URN
HasURN(u, r) == u[r] # ""

\* Object.ID(): the assigned ID, or RtFail when an assertion fails
ID(lv, r) ==
    LET idobj == getIDObject(lv, r)
    IN  IF idobj = RtFail \/ idobj = RtNil THEN RtFail
        ELSE IF idobj.type # "string" THEN RtFail
        ELSE idobj

\* Object.HasID(), where getIDObject does not assert
HasID(lv, r) ==
    LET idobj == getIDObject(lv, r)
    IN  idobj # RtNil /\ idobj # RtNull

\* SetID without the double-set assertion
SetID_NoGuard(props, id) ==
    [k \in DOMAIN props \cup {IDProperty} |->
        IF k = IDProperty THEN NewStringObject(id) ELSE props[k]]

\* Object.SetID(id) on the object's properties: the new properties, or
\* RtFailMap when the ID is already set
SetID(props, id) ==
    LET prop == GetProperty(props, IDProperty, TRUE)
    IN  IF prop = RtNull \/ prop.type = "computed"
        THEN [k \in DOMAIN props \cup {IDProperty} |->
                 IF k = IDProperty THEN NewStringObject(id) ELSE props[k]]
        ELSE RtFailMap

NewState(t, u, id, inputs, outputs) ==
    [type |-> t, urn |-> u, id |-> id, inputs |-> inputs, outputs |-> outputs]

\* Object.Type(): every resource of the model has the one resource class
TypeOf(r) == "resource"

\* SetURN without the requirement that the URN is empty
SetURNCall_NoGuard(r, m) ==
    /\ Running
    /\ urn' = [urn EXCEPT ![r] = m]
    /\ last' = Call("SetURN", r, m, "ok", <<>>)
    /\ UNCHANGED <<live, input, imp>>

SetURNCall(r, m) ==
    /\ Running
    /\ IF ~HasURN(urn, r)
       THEN /\ urn' = [urn EXCEPT ![r] = m]
            /\ last' = Call("SetURN", r, m, "ok", <<>>)
       ELSE /\ urn' = urn
            /\ last' = Call("SetURN", r, m, "violation", <<>>)
    /\ UNCHANGED <<live, input, imp>>

SetIDCall(r, id) ==
    /\ Running
    /\ LET props == SetID(live[r], id)
       IN  IF IsRtFailMap(props)
           THEN /\ live' = live
                /\ last' = Call("SetID", r, id, "violation", <<>>)
           ELSE /\ live' = [live EXCEPT ![r] = props]
                /\ last' = Call("SetID", r, id, "ok", <<>>)
    /\ UNCHANGED <<urn, input, imp>>

SetPropertiesCall(r, props) ==
    /\ Running
    /\ \E out \in setRuntimePropertiesOutcomes(live[r], props) :
          /\ live' = [live EXCEPT ![r] = out.props]
          /\ last' = Call("SetProperties", r, props,
                          IF out.ok THEN "ok" ELSE "violation", <<>>)
    /\ UNCHANGED <<urn, input, imp>>

CopyPropertiesCall(r) ==
    /\ Running
    /\ LET m == CopyProperties(live, r)
       IN  last' = IF IsPVFailMap(m)
                   THEN Call("CopyProperties", r, <<>>, "violation", <<>>)
                   ELSE Call("CopyProperties", r, <<>>, "ok", m)
    /\ UNCHANGED <<urn, live, input, imp>>

\* Update taking its snapshot of the inputs after the ID and the outputs are set
UpdateCall_CaptureAfter(r, id, outputs) ==
    /\ Running
    /\ LET arg == [id |-> id, outputs |-> outputs]
           withID == SetID(live[r], id)
       IN  IF ~HasURN(urn, r) \/ IsPVFailMap(CopyProperties(live, r)) \/ IsRtFailMap(withID)
           THEN /\ live' = live
                /\ last' = Call("Update", r, arg, "violation", <<>>)
           ELSE \E out \in setRuntimePropertiesOutcomes(withID, outputs) :
                   /\ live' = [live EXCEPT ![r] = out.props]
                   /\ last' = IF out.ok
                              THEN Call("Update", r, arg, "ok",
                                        NewState(TypeOf(r), urn[r], id,
                                                 CopyProperties(live', r), outputs))
                              ELSE Call("Update", r, arg, "violation", <<>>)
    /\ UNCHANGED <<urn, input, imp>>

UpdateCall(r, id, outputs) ==
    /\ Running
    /\ LET arg == [id |-> id, outputs |-> outputs]
           inputs == CopyProperties(live, r)
           withID == SetID(live[r], id)
       IN  IF ~HasURN(urn, r) \/ IsPVFailMap(inputs) \/ IsRtFailMap(withID)
           THEN /\ live' = live
                /\ last' = Call("Update", r, arg, "violation", <<>>)
           ELSE \E out \in setRuntimePropertiesOutcomes(withID, outputs) :
                   /\ live' = [live EXCEPT ![r] = out.props]
                   /\ last' = IF out.ok
                              THEN Call("Update", r, arg, "ok",
                                        NewState(TypeOf(r), urn[r], id, inputs, outputs))
                              ELSE Call("Update", r, arg, "violation", <<>>)
    /\ UNCHANGED <<urn, input, imp>>

HasIDCall(r) ==
    /\ Running
    /\ last' = IF getIDObject(live, r) = RtFail
               THEN Call("HasID", r, <<>>, "violation", <<>>)
               ELSE Call("HasID", r, <<>>, "ok", HasID(live, r))
    /\ UNCHANGED <<urn, live, input, imp>>

IDCall(r) ==
    /\ Running
    /\ LET id == ID(live, r)
       IN  last' = IF id = RtFail
                   THEN Call("ID", r, <<>>, "violation", <<>>)
                   ELSE Call("ID", r, <<>>, "ok", id.val)
    /\ UNCHANGED <<urn, live, input, imp>>

\* the evaluator assigns the resource's ID property while the program runs
EvalIDValues(r) ==
    {RtNull, RtComputed("string", FALSE, <<r>>)} \cup {NewStringObject(id) : id \in IDs}

EvalAssignID(r, v) ==
    /\ Running
    /\ live' = [live EXCEPT ![r] =
                   [k \in DOMAIN live[r] \cup {IDProperty} |->
                       IF k = IDProperty THEN v ELSE live[r][k]]]
    /\ last' = Call("Assign", r, v, "ok", <<>>)
    /\ UNCHANGED <<urn, input, imp>>

ImpIdle == [pc |-> "idle"]

(***************************************************************************)
(* Spec: the life of the Resource Object of r1, from NewObject on.         *)
(***************************************************************************)
Subject == "r1"

Init ==
    /\ urn = [r \in Resources |-> ""]
    /\ live = [r \in Resources |-> EmptyMap]
    /\ last = NoCall
    /\ input = EmptyMap
    /\ imp = ImpIdle

Next ==
    \/ \E m \in URNs : SetURNCall(Subject, m)
    \/ \E id \in IDs : SetIDCall(Subject, id)
    \/ \E props \in HydrationInputs : SetPropertiesCall(Subject, props)
    \/ \E id \in IDs, outputs \in HydrationInputs : UpdateCall(Subject, id, outputs)
    \/ CopyPropertiesCall(Subject)
    \/ HasIDCall(Subject)
    \/ IDCall(Subject)
    \/ \E v \in EvalIDValues(Subject) : EvalAssignID(Subject, v)

Spec == Init /\ [][Next]_vars

(***************************************************************************)
(* SpecTrip: a property map is hydrated onto a fresh object, which is then *)
(* captured.                                                               *)
(***************************************************************************)
InitTrip ==
    /\ urn = [r \in Resources |-> ""]
    /\ live = [r \in Resources |-> EmptyMap]
    /\ last = NoCall
    /\ input \in TripInputs
    /\ imp = ImpIdle

TripHydrate(r) == last.op = "init" /\ SetPropertiesCall(r, input)

TripCapture(r) == last.op = "SetProperties" /\ last.r = r /\ CopyPropertiesCall(r)

NextTrip == \E r \in Resources : TripHydrate(r) \/ TripCapture(r)

SpecTrip == InitTrip /\ [][NextTrip]_vars

(***************************************************************************)
(* SpecCapture: the evaluator has built the objects of two resources, r1   *)
(* with any value as its property "a"; they are captured, and their IDs    *)
(* are set.                                                                *)
(***************************************************************************)
SubjectObjects ==
    {ObjectOf(id, a) : id \in InitialIDs("r1"),
                       a \in {RtNil} \cup RtUpTo(CaptureLeaves, MaxNodes)}
ReferentObjects ==
    {ObjectOf(id, a) : id \in InitialIDs("r2"),
                       a \in {RtNil, RtOther, RtResource("r1")}}

InitCapture ==
    /\ urn = [r \in Resources |-> ""]
    /\ live \in {[r \in Resources |-> IF r = "r1" THEN o1 ELSE o2] :
                    o1 \in SubjectObjects, o2 \in ReferentObjects}
    /\ last = NoCall
    /\ input = EmptyMap
    /\ imp = ImpIdle

NextCapture ==
    \E r \in Resources :
       \/ CopyPropertiesCall(r)
       \/ \E id \in IDs : SetIDCall(r, id)

SpecCapture == InitCapture /\ [][NextCapture]_vars

(***************************************************************************)
(* SpecImport: the Run function of `stack import`, from the deserializing  *)
(* of the deployment it has read to its return.                            *)
(***************************************************************************)
Stacks == {"stack-a", "stack-b"}
\* s.Name().StackName(): the stack the deployment is imported into
TargetStack == "stack-a"
\* a URN, as the stack and the name it spells
SnapshotURNs == {[stack |-> st, name |-> n] : st \in Stacks, n \in {"x", "y"}}
\* URN.Stack()
URNStack(u) == u.stack

RECURSIVE SeqsUpTo(_, _)
SeqsUpTo(S, n) ==
    IF n = 0 THEN {<<>>}
    ELSE SeqsUpTo(S, n - 1)
         \cup {Append(q, x) : q \in {t \in SeqsUpTo(S, n - 1) : Len(t) = n - 1}, x \in S}

PendingOps == {<<>>, <<[type |-> "creating", urn |-> [stack |-> "stack-a", name |-> "x"]]>>}

MismatchMsg(u) ==
    [msg |-> "is from a different stack", urn |-> u, stack |-> URNStack(u), want |-> TargetStack]
RerunMsg == [msg |-> "rerun with --force"]
PendingMsg(op) == [msg |-> "removing pending operation", op |-> op.type, urn |-> op.urn]

InitImport ==
    /\ urn = [r \in Resources |-> ""]
    /\ live = [r \in Resources |-> EmptyMap]
    /\ last = NoCall
    /\ input = EmptyMap
    /\ imp \in {[pc |-> "deserialize", force |-> f, resources |-> rs, pending |-> po,
                 i |-> 1, result |-> <<>>, warnings |-> <<>>, importCalled |-> FALSE,
                 ret |-> <<>>] :
                   f \in BOOLEAN, rs \in SeqsUpTo(SnapshotURNs, MaxSnapshot), po \in PendingOps}

\* the errors of stack.DeserializeUntypedDeployment, as Run reports them
DeserializeErrors == {"too old", "too new", "could not deserialize deployment"}

\* stack.DeserializeUntypedDeployment: the snapshot, or one of its errors
Deserialize(err) ==
    /\ imp.pc = "deserialize"
    /\ imp' = IF err = "none"
              THEN [imp EXCEPT !.pc = "validate"]
              ELSE [imp EXCEPT !.pc = "done", !.ret = <<[msg |-> err]>>]
    /\ UNCHANGED <<urn, live, last, input>>

\* CheckResource that stops gathering after the first mismatch
CheckResource_FirstOnly ==
    /\ imp.pc = "validate" /\ imp.i <= Len(imp.resources)
    /\ LET res == imp.resources[imp.i]
       IN  imp' = IF URNStack(res) # TargetStack
                  THEN IF imp.force
                       THEN [imp EXCEPT !.i = @ + 1,
                                        !.warnings = Append(@, MismatchMsg(res))]
                       ELSE [imp EXCEPT !.i = Len(imp.resources) + 1,
                                        !.result = Append(@, MismatchMsg(res))]
                  ELSE [imp EXCEPT !.i = @ + 1]
    /\ UNCHANGED <<urn, live, last, input>>

\* one turn of the loop over snapshot.Resources
CheckResource ==
    /\ imp.pc = "validate" /\ imp.i <= Len(imp.resources)
    /\ LET res == imp.resources[imp.i]
       IN  imp' = IF URNStack(res) # TargetStack
                  THEN IF imp.force
                       THEN [imp EXCEPT !.i = @ + 1,
                                        !.warnings = Append(@, MismatchMsg(res))]
                       ELSE [imp EXCEPT !.i = @ + 1,
                                        !.result = Append(@, MismatchMsg(res))]
                  ELSE [imp EXCEPT !.i = @ + 1]
    /\ UNCHANGED <<urn, live, last, input>>

\* after the loop: return the gathered errors and the closing one, or go on
EndValidation ==
    /\ imp.pc = "validate" /\ imp.i > Len(imp.resources)
    /\ imp' = IF imp.result # <<>>
              THEN [imp EXCEPT !.pc = "done", !.ret = Append(imp.result, RerunMsg)]
              ELSE [imp EXCEPT !.pc = "pending"]
    /\ UNCHANGED <<urn, live, last, input>>

\* the pending operations are warned about and cleared
ClearPending ==
    /\ imp.pc = "pending"
    /\ imp' = [imp EXCEPT !.pc = "marshal",
                          !.warnings = @ \o [j \in 1..Len(imp.pending) |->
                                                PendingMsg(imp.pending[j])],
                          !.pending = <<>>]
    /\ UNCHANGED <<urn, live, last, input>>

\* json.Marshal(stack.SerializeDeployment(snapshot)): the snapshot was read
\* from JSON and goes back to JSON, which does not fail
Marshal ==
    /\ imp.pc = "marshal"
    /\ imp' = [imp EXCEPT !.pc = "import"]
    /\ UNCHANGED <<urn, live, last, input>>

\* s.ImportDeployment(ctx, &dep), which the backend may refuse
ImportDeployment(err) ==
    /\ imp.pc = "import"
    /\ imp' = IF err = "none"
              THEN [imp EXCEPT !.pc = "done", !.importCalled = TRUE, !.ret = <<>>]
              ELSE [imp EXCEPT !.pc = "done", !.importCalled = TRUE,
                               !.ret = <<[msg |-> "could not import deployment"]>>]
    /\ UNCHANGED <<urn, live, last, input>>

NextImport ==
    \/ \E err \in {"none"} \cup DeserializeErrors : Deserialize(err)
    \/ CheckResource
    \/ EndValidation
    \/ ClearPending
    \/ Marshal
    \/ \E err \in {"none", "backend error"} : ImportDeployment(err)

SpecImport == InitImport /\ [][NextImport]_vars

(***************************************************************************)
(* The claims about the life of a Resource Object, checked under Spec.     *)
(***************************************************************************)
\* the property map a SetProperties or Update call was given
CallProps(c) == IF c.op = "Update" THEN c.arg.outputs ELSE c.arg

\* the ID property as the object holds it: RtNil when absent
IDObj(lv, r) == GetProperty(lv[r], IDProperty, FALSE)
IDUnset(lv, r) == IDObj(lv, r).type \in {"nil", "null", "computed"}

RECURSIVE HasUnresolved(_)
\* v is, or holds at some depth, a Computed or Output value
HasUnresolved(v) ==
    \/ v.kind \in {"Computed", "Output"}
    \/ v.kind = "Array" /\ \E i \in 1..Len(v.v) : HasUnresolved(v.v[i])
    \/ v.kind = "Object" /\ \E k \in DOMAIN v.v : HasUnresolved(v.v[k])

\* C1: an Update(X, O) that returns, on an object with a URN and no concrete
\* ID, returns State{id: X, inputs: what CopyProperties gave before the call
\* (only the keys the object had, never the new ID), outputs: O as supplied};
\* afterwards HasID() is true and ID() is X.
UpdateReturnsSnapshot ==
    [][(last'.op = "Update" /\ last'.res = "ok") =>
          LET r == last'.r
              X == last'.arg.id
              O == last'.arg.outputs
              st == last'.ret
          IN  /\ HasURN(urn, r) /\ IDUnset(live, r)
              /\ st.id = X /\ st.urn = urn[r] /\ st.type = TypeOf(r)
              /\ st.inputs = CopyProperties(live, r)
              /\ (last.op = "CopyProperties" /\ last.r = r) => st.inputs = last.ret
              /\ DOMAIN st.inputs = DOMAIN live[r]
              /\ IDProperty \in DOMAIN st.inputs =>
                     st.inputs[IDProperty] # NewStringProperty(X)
              /\ st.outputs = O
              /\ getIDObject(live', r) # RtFail /\ HasID(live', r)
              /\ ID(live', r) = NewStringObject(X)]_vars

\* C1 witness: an Update returned although hydration dropped its output "a",
\* which the object already held and which the inputs of the State record
UpdateDroppedOutput ==
    /\ last.op = "Update" /\ last.res = "ok"
    /\ "a" \in DOMAIN last.arg.outputs /\ "a" \in DOMAIN last.ret.inputs
    /\ live[last.r]["a"] # createRuntimeProperty(last.arg.outputs["a"])
    /\ last.ret.outputs["a"] = last.arg.outputs["a"]

\* C2: SetID succeeds exactly when the ID property is absent, null or
\* computed, and then holds the ID; otherwise it fails and changes nothing;
\* no SetID, SetProperties or Update call changes an ID that is a string.
IDSetOnce ==
    [][last'.op \in {"SetID", "SetProperties", "Update"} =>
          LET r == last'.r
              old == IDObj(live, r)
          IN  /\ old.type = "string" => IDObj(live', r) = old
              /\ last'.op = "SetID" =>
                    /\ (last'.res = "ok") <=> IDUnset(live, r)
                    /\ last'.res = "ok" => IDObj(live', r) = NewStringObject(last'.arg)
                    /\ last'.res = "violation" => live' = live]_vars

\* C2 witness: a SetID with another ID failed on an object whose ID is set
SetIDRefused ==
    /\ last.op = "SetID" /\ last.res = "violation"
    /\ IDObj(live, last.r).type = "string"
    /\ IDObj(live, last.r).val # last.arg

\* C3 as claimed: whatever the first SetURN passed, a second SetURN on the
\* same object fails and the URN keeps the first call's value.
SecondSetURNFails ==
    [][(last.op = "SetURN" /\ last.res = "ok"
          /\ last'.op = "SetURN" /\ last'.r = last.r) =>
          (last'.res = "violation" /\ urn'[last.r] = last.arg)]_vars

\* C3 as amended: a SetURN on an object whose URN is not empty fails and
\* leaves the URN; so after a first SetURN with a non-empty URN the second
\* fails and the URN keeps the first value.  The URN changes in no other way.
SecondSetURNFailsAfterNonEmpty ==
    [][/\ (last'.op = "SetURN" /\ urn[last'.r] # "") =>
              (last'.res = "violation" /\ urn' = urn)
       /\ (last'.op = "SetURN" /\ urn[last'.r] = "") =>
              (last'.res = "ok" /\ urn' = [urn EXCEPT ![last'.r] = last'.arg])
       /\ (last.op = "SetURN" /\ last.res = "ok" /\ last.arg # ""
              /\ last'.op = "SetURN" /\ last'.r = last.r) =>
              (last'.res = "violation" /\ urn'[last.r] = last.arg)
       /\ last'.op # "SetURN" => urn' = urn]_vars

\* C3 witness: a SetURN with another URN failed and the first URN stands
SetURNRefused ==
    /\ last.op = "SetURN" /\ last.res = "violation"
    /\ urn[last.r] # "" /\ urn[last.r] # last.arg

RoundTripIsIdentity ==
    /\ last.op = "SetProperties" => last.res = "ok"
    /\ last.op = "CopyProperties" => (last.res = "ok" /\ last.ret = input)

\* C6 witness: a map with an array of two different elements and a null
\* entry made the round trip
RoundTripOfArray ==
    /\ last.op = "CopyProperties"
    /\ \E k \in DOMAIN input :
          /\ input[k].kind = "Array" /\ Len(input[k].v) = 2
          /\ input[k].v[1] # input[k].v[2]
          /\ input[k].v[1].kind = "Null"

(***************************************************************************)
(* The claims about capture, checked under SpecCapture.                    *)
(***************************************************************************)
RECURSIVE RefsFlattened(_, _, _)
\* pv has, wherever obj has a reference to a resource, the resource's ID if
\* that is a string and Computed(String) if it is absent or computed
RefsFlattened(lv, obj, pv) ==
    IF obj.type = "resource" THEN
        /\ IDObj(lv, obj.val).type = "string" =>
              pv = NewStringProperty(IDObj(lv, obj.val).val)
        /\ IDObj(lv, obj.val).type \in {"nil", "computed"} =>
              pv = MakeComputed(NewStringProperty(""))
    ELSE IF obj.type = "array" THEN
        /\ pv.kind = "Array" /\ Len(pv.v) = Len(obj.val)
        /\ \A i \in 1..Len(obj.val) : RefsFlattened(lv, obj.val[i], pv.v[i])
    ELSE IF obj.type \in ObjectTypes THEN
        /\ pv.kind = "Object" /\ DOMAIN pv.v = DOMAIN obj.val
        /\ \A k \in DOMAIN obj.val : RefsFlattened(lv, obj.val[k], pv.v[k])
    ELSE TRUE

RECURSIVE HasBadNode(_, _)
\* obj holds, at some depth outside the resources it refers to, a value of a
\* type capture does not know, a computed value of an element type it does
\* not know, or a reference to a resource whose ID is neither absent, a
\* string nor computed
HasBadNode(lv, obj) ==
    \/ obj.type = "resource" /\ IDObj(lv, obj.val).type \notin {"nil", "string", "computed"}
    \/ obj.type = "array" /\ \E i \in 1..Len(obj.val) : HasBadNode(lv, obj.val[i])
    \/ obj.type \in ObjectTypes /\ \E k \in DOMAIN obj.val : HasBadNode(lv, obj.val[k])
    \/ obj.type = "computed" /\
          obj.val.elem \notin {"null", "bool", "number", "string", "object", "dynamic",
                               "array", "class"}
    \/ obj.type \notin ({"resource", "array", "computed", "function", "null", "bool",
                         "number", "string"} \cup ObjectTypes)

CaptureFailsOnlyOnBadNode ==
    last.op = "CopyProperties" =>
       (last.res = "violation" <=>
           \E k \in DOMAIN live[last.r] : HasBadNode(live, live[last.r][k]))

\* C4: a capture that returns holds, for a reference to a resource at any
\* depth, the resource's ID as a String once it is set and Computed(String)
\* while it is absent or computed, whatever the resource's other properties;
\* such a reference makes no capture fail.
ReferencesFlattened ==
    /\ CaptureFailsOnlyOnBadNode
    /\ (last.op = "CopyProperties" /\ last.res = "ok") =>
          \A k \in DOMAIN live[last.r] :
             k \in DOMAIN last.ret /\ RefsFlattened(live, live[last.r][k], last.ret[k])

\* C4 witness: r1 holds r2 in an array and is captured with r2's ID in it,
\* though r2 and r1 refer to each other and r2's ID was set
NestedReferenceCaptured ==
    /\ last.op = "CopyProperties" /\ last.r = "r1" /\ last.res = "ok"
    /\ "a" \in DOMAIN live["r1"]
    /\ live["r1"]["a"] = NewArrayObject(<<RtResource("r2")>>)
    /\ live["r2"] = ObjectOf(NewStringObject("i2"), RtResource("r1"))
    /\ last.ret["a"] = NewArrayProperty(<<NewStringProperty("i2")>>)

RECURSIVE OutputRule(_, _, _, _)
\* pv has Output where obj has a computed value of no expression whose one
\* source is `at`, and Computed at every other computed value; the values
\* inside an array or an object are held to the rule with `below` for `at`
OutputRule(at, below, obj, pv) ==
    IF obj.type = "computed" THEN
        pv.kind = IF ~obj.val.expr /\ obj.val.sources = <<at>>
                  THEN "Output" ELSE "Computed"
    ELSE IF obj.type = "array" THEN
        \A i \in 1..Len(obj.val) : OutputRule(below, below, obj.val[i], pv.v[i])
    ELSE IF obj.type \in ObjectTypes THEN
        \A k \in DOMAIN obj.val : OutputRule(below, below, obj.val[k], pv.v[k])
    ELSE TRUE

\* C8 as claimed: at any depth of R's property tree, capture emits Output
\* for a computed value exactly when it has no expression and R is its one
\* source, and Computed otherwise.
OutputAtAnyDepth ==
    (last.op = "CopyProperties" /\ last.res = "ok") =>
       \A k \in DOMAIN live[last.r] :
          OutputRule(last.r, last.r, live[last.r][k], last.ret[k])

\* C8 as amended: for a computed value that is a property of R itself capture
\* emits Output exactly when it has no expression and R is its one source;
\* for a computed value inside an array or an object it emits Computed
\* whatever its sources; it fails on a computed map.
OutputOnlyOnTheResource ==
    /\ CaptureFailsOnlyOnBadNode
    /\ (last.op = "CopyProperties" /\ last.res = "ok") =>
          \A k \in DOMAIN live[last.r] :
             OutputRule(last.r, NoRes, live[last.r][k], last.ret[k])

\* C8 witness: r1's own computed ID is captured as Output, the same computed
\* value inside its array as Computed
OutputAndNestedComputed ==
    /\ last.op = "CopyProperties" /\ last.r = "r1" /\ last.res = "ok"
    /\ DOMAIN live["r1"] = Keys
    /\ live["r1"][IDProperty] = RtComputed("string", FALSE, <<"r1">>)
    /\ live["r1"]["a"] = NewArrayObject(<<RtComputed("string", FALSE, <<"r1">>)>>)
    /\ last.ret[IDProperty] = MakeOutput(NewStringProperty(""))
    /\ last.ret["a"] = NewArrayProperty(<<MakeComputed(NewStringProperty(""))>>)

\* C9: capture skips a function: it does not fail on it and the property map
\* it returns has no entry under the function's key; on a value of any other
\* type it does not know it fails.
FunctionsSkipped ==
    last.op = "CopyProperties" =>
       /\ (\A k \in DOMAIN live[last.r] : live[last.r][k].type \in {"function", "string"})
             => last.res = "ok"
       /\ last.res = "ok" =>
             \A k \in DOMAIN live[last.r] :
                live[last.r][k].type = "function" => k \notin DOMAIN last.ret
       /\ (\E k \in DOMAIN live[last.r] : live[last.r][k] = RtOther)
             => last.res = "violation"

(***************************************************************************)
(* The claim about stack import, checked under SpecImport.                 *)
(***************************************************************************)
\* the resources of the snapshot that are from another stack, in order
Mismatches == SelectSeq(imp.resources, LAMBDA u : URNStack(u) # TargetStack)
MismatchMsgs == [j \in 1..Len(Mismatches) |-> MismatchMsg(Mismatches[j])]
\* Run has returned, and not for an error of deserializing
Validated ==
    /\ imp.pc = "done" /\ imp.i > Len(imp.resources)
    /\ imp.ret \notin {<<[msg |-> e]>> : e \in DeserializeErrors}

\* the command fails on mismatches without force, naming every one of them
\* and then the closing error, and does not call ImportDeployment
RejectedWithoutForce ==
    (Validated /\ ~imp.force /\ Mismatches # <<>>) =>
       /\ ~imp.importCalled
       /\ imp.ret = MismatchMsgs \o <<RerunMsg>>
       /\ imp.warnings = <<>>

HasIDGuardsID ==
    [][/\ last'.op = "HasID" => last'.res = "ok"
       /\ (/\ last.op = "HasID" /\ last.res = "ok" /\ last.ret = TRUE
           /\ last'.op = "ID" /\ last'.r = last.r)
          => /\ last'.res = "ok"
             /\ IDObj(live, last.r).type = "string"
             /\ last'.ret = IDObj(live, last.r).val]_vars

====
